---------------------------- MODULE Spec2Model ----------------------------
(***************************************************************************)
(* Model of gutenberg's live-development commands: `serve` (cmd/serve.rs)  *)
(* and `watch` (cmd/watch.rs).                                             *)
(*                                                                         *)
(* A path is the sequence of its components, as Rust's Path::components()  *)
(* yields them: an absolute path starts with the RootDir component "/".    *)
(***************************************************************************)
EXTENDS Naturals, Sequences, FiniteSets, TLC

VARIABLES
    pwd,          \* env::current_dir(), the project root
    path,         \* the changed path last handed to detect_change_kind
    detected,     \* what detect_change_kind returned for `path`
    detectedRel,  \* what it returned for the root-relative form of `path`
    temp,         \* what is_temp_file returned for `path`
    mode,         \* the command that runs: "serve" or "watch"
    env,          \* the command's config file and what the project holds
    mainPc,       \* where the main context stands
    watchPc,      \* where the context that runs watch() stands
    watches,      \* the targets registered with the watcher
    current,      \* the event the watch loop has received and is handling
    error,        \* the error watch() returned or panicked with
    outputDir,    \* the generated output directory: "absent" or "present"
    handler,      \* the Ctrl-C handler
    site,         \* the Site the watch loop holds
    chan,         \* the channel from watch() to serve(): messages in flight
    produced,     \* history: the reload messages the watch loop has sent
    handled,      \* how many filesystem events the watch loop has received
    res,          \* history: how the last received event ended
    regular,      \* history: what path.is_file() answered in the StaticFiles arm
    copied,       \* history: the files copy_file was called to copy
    reported,     \* history: whether console::unravel_errors reported its failure
    httpState,    \* the Dev HTTP Server's context
    wsState,      \* the WebSocket server
    wsQueue,      \* the WebSocket event loop's queue of commands
    forwarded,    \* history: the messages broadcaster.send accepted
    spins,        \* history: iterations of the forwarding loop that received nothing
    conn,         \* per client: the state of its connection
    inbox,        \* per client: frames sent and not yet handled
    outbox,       \* per client: frames delivered to it, in order
    frames        \* per client: how many frames it has sent

clsVars == <<pwd, path, detected, detectedRel, temp>>

watchVars ==
    <<watchPc, watches, current, error, outputDir, handler, site, chan,
      produced, handled, res, regular, copied, reported>>

wsVars == <<wsState, wsQueue, conn, inbox, outbox, frames>>

vars ==
    <<pwd, path, detected, detectedRel, temp, mode, env, mainPc, watchPc,
      watches, current, error, outputDir, handler, site, chan, produced,
      handled, res, regular, copied, reported, httpState, wsState, wsQueue,
      forwarded, spins, conn, inbox, outbox, frames>>

(***************************************************************************)
(* Bounds of the model.                                                    *)
(***************************************************************************)
MaxDepth == 2     \* components of a changed path below the project root
MaxEvents == 2    \* filesystem events the watch loop receives
MaxClients == 1   \* browsers that connect to the WebSocket
MaxSpins == 2     \* iterations of the forwarding loop on a closed channel

(***************************************************************************)
(* std::path, as far as watch.rs uses it.                                  *)
(***************************************************************************)
RootDir == "/"

None == [some |-> FALSE]

Some(v) == [some |-> TRUE, val |-> v]

is_absolute(p) == p # <<>> /\ Head(p) = RootDir

\* Path::starts_with: whole components only
starts_with(p, base) ==
    /\ Len(base) <= Len(p)
    /\ SubSeq(p, 1, Len(base)) = base

\* Path::strip_prefix: Err (None) when base is not a prefix of p
strip_prefix(p, base) ==
    IF starts_with(p, base)
    THEN Some(SubSeq(p, Len(base) + 1, Len(p)))
    ELSE None

unwrap_or(opt, default) == IF opt.some THEN opt.val ELSE default

\* PathBuf::push: an absolute argument replaces the buffer
push(buf, p) == IF is_absolute(p) THEN p ELSE buf \o p

RECURSIVE JoinComponents(_)
JoinComponents(cs) ==
    IF cs = <<>> THEN ""
    ELSE IF Len(cs) = 1 THEN Head(cs)
    ELSE Head(cs) \o "/" \o JoinComponents(Tail(cs))

\* Path::to_string_lossy on a unix path
to_string_lossy(p) ==
    IF is_absolute(p) THEN "/" \o JoinComponents(Tail(p))
    ELSE JoinComponents(p)

(***************************************************************************)
(* enum ChangeKind, and the panic of unreachable!() as a sixth outcome.    *)
(***************************************************************************)
Content == "Content"
Templates == "Templates"
StaticFiles == "StaticFiles"
Sass == "Sass"
Config == "Config"
Unreachable == "unreachable!"

ChangeKind == {Content, Templates, StaticFiles, Sass, Config}

\* partial_path without the strip_prefix: the changed path pushed as given
partial_path_unstripped(wd, p) == push(<<RootDir>>, p)

\* lines 190-191: "/" with the changed path, less the project root, pushed
partial_path_of(wd, p) == push(<<RootDir>>, unwrap_or(strip_prefix(p, wd), p))

\* the if-chain with "/config.toml" tested as a prefix like the other four
kind_of_config_prefix(partial_path) ==
    IF starts_with(partial_path, <<RootDir, "templates">>) THEN Templates
    ELSE IF starts_with(partial_path, <<RootDir, "content">>) THEN Content
    ELSE IF starts_with(partial_path, <<RootDir, "static">>) THEN StaticFiles
    ELSE IF starts_with(partial_path, <<RootDir, "sass">>) THEN Sass
    ELSE IF starts_with(partial_path, <<RootDir, "config.toml">>) THEN Config
    ELSE Unreachable

\* lines 193-205: the if-chain that selects the kind
kind_of(partial_path) ==
    IF starts_with(partial_path, <<RootDir, "templates">>) THEN Templates
    ELSE IF starts_with(partial_path, <<RootDir, "content">>) THEN Content
    ELSE IF starts_with(partial_path, <<RootDir, "static">>) THEN StaticFiles
    ELSE IF starts_with(partial_path, <<RootDir, "sass">>) THEN Sass
    ELSE IF partial_path = <<RootDir, "config.toml">> THEN Config
    ELSE Unreachable

detect_change_kind(wd, p) ==
    [kind |-> kind_of(partial_path_of(wd, p)), path |-> partial_path_of(wd, p)]

(***************************************************************************)
(* File names.  A name is spelled as the sequence of its pieces, "." being *)
(* a piece of its own, so that extension() and file_stem() split it where  *)
(* Rust does.                                                              *)
(***************************************************************************)
Spelling(name) ==
    CASE name = "hello.md" -> <<"hello", ".", "md">>
      [] name = "hello.html" -> <<"hello", ".", "html">>
      [] name = "site.css" -> <<"site", ".", "css">>
      [] name = "print.scss" -> <<"print", ".", "scss">>
      [] name = "config.toml" -> <<"config", ".", "toml">>
      [] name = "hello.swp" -> <<"hello", ".", "swp">>
      [] name = "hello.swx" -> <<"hello", ".", "swx">>
      [] name = "hello.tmp" -> <<"hello", ".", "tmp">>
      [] name = ".DS_STORE" -> <<".", "DS_STORE">>
      [] name = "hello.html.__jb_old___" ->
            <<"hello", ".", "html", ".", "__", "jb_old___">>
      [] name = "hello.html.__jb_tmp___" ->
            <<"hello", ".", "html", ".", "__", "jb_tmp___">>
      [] name = "hello.html.__jb_bak___" ->
            <<"hello", ".", "html", ".", "__", "jb_bak___">>
      [] name = "hello.html~" -> <<"hello", ".", "html", "~">>
      [] name = "#hello.html" -> <<"#", "hello", ".", "html">>
      [] name = "#hello" -> <<"#", "hello">>
      [] name = "hello~" -> <<"hello", "~">>
      [] name = "hello~.md" -> <<"hello", "~", ".", "md">>
      [] name = "hello." -> <<"hello", ".">>
      [] name = "hello.swp.md" -> <<"hello", ".", "swp", ".", "md">>
      [] name = ".swp" -> <<".", "swp">>
      [] name = "site.toml" -> <<"site", ".", "toml">>
      [] name = "v1.0" -> <<"v1", ".", "0">>
      [] OTHER -> <<name>>

Last(sq) == sq[Len(sq)]

\* index of the last "." of a spelled name, 0 when it has none
LastDot(t) ==
    LET dots == {i \in DOMAIN t : t[i] = "."} IN
    IF dots = {} THEN 0 ELSE CHOOSE i \in dots : \A j \in dots : j <= i

\* Path::file_name is None for "/" and for a path that ends in ".."
has_file_name(p) == p # <<>> /\ Last(p) \notin {RootDir, ".."}

\* Path::extension
extension(p) ==
    IF ~has_file_name(p) THEN None
    ELSE LET t == Spelling(Last(p))
             d == LastDot(t) IN
         IF d <= 1 THEN None ELSE Some(SubSeq(t, d + 1, Len(t)))

\* Path::file_stem
file_stem(p) ==
    IF ~has_file_name(p) THEN None
    ELSE LET t == Spelling(Last(p))
             d == LastDot(t) IN
         IF d <= 1 THEN Some(t) ELSE Some(SubSeq(t, 1, d - 1))

ends_with(t, suffix) == t # <<>> /\ Last(t) = suffix

\* is_temp_file without the emacs arm: any other extension is not a temp file
is_temp_file_no_emacs(p) ==
    LET ext == extension(p) IN
    IF ext.some
    THEN IF ext.val \in {<<"swp">>, <<"swx">>, <<"tmp">>, <<".", "DS_STORE">>} THEN TRUE
         ELSE IF ends_with(ext.val, "jb_old___") THEN TRUE
         ELSE IF ends_with(ext.val, "jb_tmp___") THEN TRUE
         ELSE IF ends_with(ext.val, "jb_bak___") THEN TRUE
         ELSE IF ends_with(ext.val, "~") THEN TRUE
         ELSE FALSE
    ELSE TRUE

\* lines 161-185
is_temp_file(p) ==
    LET ext == extension(p) IN
    IF ext.some
    THEN IF ext.val \in {<<"swp">>, <<"swx">>, <<"tmp">>, <<".", "DS_STORE">>} THEN TRUE
         ELSE IF ends_with(ext.val, "jb_old___") THEN TRUE
         ELSE IF ends_with(ext.val, "jb_tmp___") THEN TRUE
         ELSE IF ends_with(ext.val, "jb_bak___") THEN TRUE
         ELSE IF ends_with(ext.val, "~") THEN TRUE
         ELSE IF file_stem(p).some
              THEN file_stem(p).val # <<>> /\ Head(file_stem(p).val) = "#"
              ELSE FALSE
    ELSE TRUE

(***************************************************************************)
(* Messages.                                                               *)
(***************************************************************************)
FirstBuildComplete == "first build complete"

\* the text rebuild_done_handling formats
ReloadMessage(reload_path) ==
    "{\"command\": \"reload\", \"path\": \"" \o reload_path
    \o "\", \"originalPath\": \"\", \"liveCSS\": true, \"liveImg\": true, "
    \o "\"protocol\": [\"http://livereload.com/protocols/official-7\"]}"

\* the handshake reply of the WebSocket handler
HelloReply ==
    "{\"command\": \"hello\", "
    \o "\"protocols\": [\"http://livereload.com/protocols/official-7\"], "
    \o "\"serverName\": \"Gutenberg\"}"

ForcedRefresh == "/x.js"

Ok == "Ok"
Err == "Err"

(***************************************************************************)
(* What the environment feeds the program.                                 *)
(***************************************************************************)
Pwd == <<RootDir, "site">>

\* the command's arguments and the project on disk: the name of the config
\* file, its compile_sass, and whether static/ and sass/ exist
DefaultEnv ==
    [config_file |-> "config.toml", compile_sass |-> TRUE,
     has_static |-> TRUE, has_sass |-> TRUE]

Envs ==
    [config_file : {"config.toml", "site.toml"}, compile_sass : BOOLEAN,
     has_static : BOOLEAN, has_sass : BOOLEAN]

\* files and directories of the project, relative to its root
ProjectPaths ==
    {<<"content", "hello.md">>, <<"templates", "hello.html">>,
     <<"static", "site.css">>, <<"sass", "print.scss">>,
     <<"config.toml">>, <<"site.toml">>, <<"content", "hello.swp">>,
     <<"content", "posts">>, <<"content", "v1.0">>}

\* the directories among them
ProjectDirs == {<<"content", "posts">>, <<"content", "v1.0">>}

\* the paths the watches registered as `ws` report
WatchedPaths(ws) == {Pwd \o q : q \in {r \in ProjectPaths : Head(r) \in ws}}

\* notify::DebouncedEvent; Rename carries its destination in `path`
RebuildOps == {"Create", "Write", "Remove", "Rename"}
OtherOps == {"NoticeWrite", "NoticeRemove", "Chmod", "Rescan", "Error"}

Events(ws) ==
    [op : RebuildOps, path : WatchedPaths(ws)]
        \cup {[op |-> o, path |-> Pwd] : o \in OtherOps}

NoEvent == [op |-> "none", path |-> <<>>]

\* the saves of a page and of a stylesheet
LiveEvents ==
    {[op |-> "Write", path |-> Pwd \o q] :
        q \in {<<"content", "hello.md">>, <<"static", "site.css">>}}

\* what path.is_dir() and path.is_file() find on disk when the event is handled
FileTypes == {"file", "dir", "missing"}

\* whether the event's path names a directory of the project
subject_is_dir(p) == \E q \in ProjectDirs : p = Pwd \o q

\* what is on disk at the path of a handled event: nothing after a Remove,
\* else the file or directory of the event, unless removed since
OnDisk(ev) ==
    {t \in FileTypes :
        \/ t = "missing"
        \/ /\ ev.op # "Remove"
           /\ t = (IF subject_is_dir(ev.path) THEN "dir" ELSE "file")}

\* where create_new_site can fail: Site::new, load, build
SiteFailures == {"none", "new", "load", "build"}

Clients == 1..MaxClients

\* commands in the event loop's queue: a broadcast carries the token of
\* all connections, a handler's reply the token of its own
Broadcast(msg) == [to |-> Clients, msg |-> msg]
Reply(c, msg) == [to |-> {c}, msg |-> msg]

\* the text frames a browser sends, each as the sequence of its tokens
HelloFrame ==
    <<"{", "\"command\"", ":", "\"hello\"", ",", "\"protocols\"", ":",
      "[", "\"http://livereload.com/protocols/official-7\"", "]", "}">>
InfoFrame ==
    <<"{", "\"command\"", ":", "\"info\"", ",", "\"url\"", ":",
      "\"http://127.0.0.1:1111/\"", "}">>
contains(tokens, token) == \E i \in DOMAIN tokens : tokens[i] = token

NotYet == [kind |-> "none", path |-> <<>>]

NoSite == [id |-> 0, loaded |-> FALSE, built |-> FALSE]

NoError == "none"

\* the program before main() has done anything
Unstarted ==
    /\ mainPc = "start"
    /\ watchPc = "unstarted"
    /\ watches = {}
    /\ current = NoEvent
    /\ error = NoError
    /\ outputDir = "absent"
    /\ handler = "unset"
    /\ site = NoSite
    /\ chan = <<>>
    /\ produced = <<>>
    /\ handled = 0
    /\ res = "none"
    /\ regular = "unasked"
    /\ copied = <<>>
    /\ reported = FALSE
    /\ httpState = "none"
    /\ wsState = "none"
    /\ wsQueue = <<>>
    /\ forwarded = <<>>
    /\ spins = 0
    /\ conn = [c \in Clients |-> "none"]
    /\ inbox = [c \in Clients |-> <<>>]
    /\ outbox = [c \in Clients |-> <<>>]
    /\ frames = [c \in Clients |-> 0]

(***************************************************************************)
(* The classifier on its own: every project root and changed path of the   *)
(* bounded sets below, given absolute or already root-relative.            *)
(***************************************************************************)
Components ==
    {"templates", "content", "static", "sass", "config.toml",
     "templates_old", "posts", "hello.md"}

Roots == {<<RootDir>>, <<RootDir, "site">>, <<RootDir, "home", "site">>}

RECURSIVE PathsUpTo(_)
PathsUpTo(n) ==
    IF n = 0 THEN {<<>>}
    ELSE LET shorter == PathsUpTo(n - 1) IN
         shorter \cup {Append(q, c) : q \in shorter, c \in Components}

RelPaths == PathsUpTo(MaxDepth) \ {<<>>}

ClassifyInit ==
    /\ pwd \in Roots
    /\ path \in {pwd \o q : q \in RelPaths} \cup RelPaths
                \cup {<<RootDir>> \o q : q \in RelPaths}
    /\ detected = NotYet
    /\ detectedRel = NotYet
    /\ temp = None
    /\ mode = "watch"
    /\ env = DefaultEnv
    /\ Unstarted

progVars ==
    <<mode, env, mainPc, watchPc, watches, current, error, outputDir, handler,
      site, chan, produced, handled, res, regular, copied, reported, httpState, wsState,
      wsQueue, forwarded, spins, conn, inbox, outbox, frames>>

DetectGiven ==
    /\ detected = NotYet
    /\ detected' = detect_change_kind(pwd, path)
    /\ UNCHANGED <<pwd, path, detectedRel, temp, progVars>>

DetectRelative ==
    /\ detectedRel = NotYet
    /\ detectedRel' = detect_change_kind(pwd, unwrap_or(strip_prefix(path, pwd), path))
    /\ UNCHANGED <<pwd, path, detected, temp, progVars>>

ClassifyNext == DetectGiven \/ DetectRelative

SpecClassify == ClassifyInit /\ [][ClassifyNext]_vars

(***************************************************************************)
(* is_temp_file on its own: the names of its test, and names that differ   *)
(* from them in one respect, in every directory of the bounded set.        *)
(***************************************************************************)
TempNames ==
    {"hello.swp", "hello.swx", ".DS_STORE", "hello.tmp",
     "hello.html.__jb_old___", "hello.html.__jb_tmp___",
     "hello.html.__jb_bak___", "hello.html~", "#hello.html",
     "#hello", "hello~", "hello~.md", "hello.", "hello.swp.md", ".swp",
     "hello.md", "hello.html", "config.toml", "v1.0", "posts", "jb_old___",
     "swp", ".."}

TempDirs == PathsUpTo(MaxDepth - 1)

TempInit ==
    /\ pwd \in Roots
    /\ path \in {Append(d, n) : d \in TempDirs, n \in TempNames}
                \cup {pwd \o Append(d, n) : d \in TempDirs, n \in TempNames}
    /\ detected = NotYet
    /\ detectedRel = NotYet
    /\ temp = None
    /\ mode = "watch"
    /\ env = DefaultEnv
    /\ Unstarted

TempCheck ==
    /\ ~temp.some
    /\ temp' = Some(is_temp_file(path))
    /\ UNCHANGED <<pwd, path, detected, detectedRel, progVars>>

SpecTemp == TempInit /\ [][TempCheck]_vars

(***************************************************************************)
(* watch(): the first build, the set-up of the watches, and the loop.      *)
(***************************************************************************)
Alive == mainPc # "exit"

\* serve hands watch() Some(tx); the watch command hands it None
broadcaster_is_some == mode = "serve"

\* the context that runs watch() panics or returns Err: under serve the
\* spawned thread ends (and drops tx), under watch the process ends
watch_ends(why) ==
    /\ watchPc' = "dead"
    /\ error' = why
    /\ mainPc' = IF mode = "watch" THEN "exit" ELSE mainPc

\* the loop goes round to its next rx.recv()
loop_continues ==
    /\ watchPc' = "loop"
    /\ UNCHANGED <<mainPc, error>>

\* the Err of create_new_site, by the call that failed
SiteError(failure) == "Site::" \o failure \o " failed"

\* the panic of unreachable!() in detect_change_kind
UnreachablePanic == "Got a change in an unexpected path"

\* Ok(site) unless Site::new, load or build fails; the Site as far as it
\* got is dropped with the Err
create_new_site(failure) ==
    CASE failure = "none" ->
            [ok |-> TRUE, site |-> [id |-> site.id + 1, loaded |-> TRUE, built |-> TRUE]]
      [] failure = "new" -> [ok |-> FALSE, site |-> NoSite]
      [] failure = "load" ->
            [ok |-> FALSE, site |-> [id |-> site.id + 1, loaded |-> FALSE, built |-> FALSE]]
      [] failure = "build" ->
            [ok |-> FALSE, site |-> [id |-> site.id + 1, loaded |-> TRUE, built |-> FALSE]]

\* rebuild_done_handling that sends the reload message whatever the result
rebuild_done_handling_unmatched(result, reload_path) ==
    /\ chan' = IF broadcaster_is_some
               THEN Append(chan, ReloadMessage(reload_path)) ELSE chan
    /\ produced' = IF broadcaster_is_some
                   THEN Append(produced, ReloadMessage(reload_path)) ELSE produced
    /\ reported' = (result # Ok)

rebuild_done_handling(result, reload_path) ==
    IF result = Ok
    THEN /\ chan' = IF broadcaster_is_some
                    THEN Append(chan, ReloadMessage(reload_path)) ELSE chan
         /\ produced' = IF broadcaster_is_some
                        THEN Append(produced, ReloadMessage(reload_path))
                        ELSE produced
         /\ reported' = FALSE
    ELSE /\ reported' = TRUE
         /\ UNCHANGED <<chan, produced>>

\* lines 60-64: the first build, then the signal to serve
FirstBuild ==
    /\ Alive
    /\ watchPc = "build"
    /\ \E failure \in SiteFailures :
        LET made == create_new_site(failure) IN
        IF made.ok
        THEN /\ site' = made.site
             /\ outputDir' = "present"
             /\ UNCHANGED copied
             /\ chan' = IF broadcaster_is_some
                        THEN Append(chan, FirstBuildComplete) ELSE chan
             /\ watchPc' = "setup"
             /\ UNCHANGED <<mainPc, error>>
        ELSE /\ watch_ends(SiteError(failure))
             /\ UNCHANGED <<site, outputDir, copied, chan>>
    /\ UNCHANGED <<clsVars, mode, env, watches, current, handler, produced,
                   handled, res, regular, reported, httpState, wsVars,
                   forwarded, spins>>

\* where the set-up of lines 66-105 can fail
SetupFailures ==
    {"none", "watcher", "content", "templates", "config", "static", "handler"}

\* the Err of chain_err, or the message of the panic (less its backquotes)
SetupError(failed) ==
    CASE failed = "watcher" -> "watcher: Result::unwrap() on an Err value"
      [] failed = "content" -> "Can't watch the content folder. Does it exist?"
      [] failed = "templates" -> "Can't watch the templates folder. Does it exist?"
      [] failed = "config" -> "Can't watch the config file. Does it exist?"
      [] failed = "static" -> "Can't watch the static folder. Does it exist?"
      [] failed = "handler" -> "Error setting Ctrl-C handler"

\* the watches of lines 70-84 when each is registered: static/ if it
\* exists, sass/ if it can be watched, whatever compile_sass says
registered_watches ==
    {"content", "templates", env.config_file}
        \cup (IF env.has_static THEN {"static"} ELSE {})
        \cup (IF env.has_sass THEN {"sass"} ELSE {})

\* lines 66-105: the watches are registered and the Ctrl-C handler is set;
\* a required watch that fails returns its Err, the watcher and the handler
\* that fail panic, and the watcher is dropped with its watches
WatchSetup ==
    /\ Alive
    /\ watchPc = "setup"
    /\ \E failed \in SetupFailures :
        /\ failed = "static" => env.has_static
        /\ IF failed = "none"
           THEN /\ watches' = registered_watches
                /\ handler' = "set"
                /\ watchPc' = "loop"
                /\ UNCHANGED <<mainPc, error>>
           ELSE /\ watch_ends(SetupError(failed))
                /\ UNCHANGED <<watches, handler>>
    /\ UNCHANGED <<clsVars, mode, env, current, outputDir, regular, copied, site, chan, produced,
                   handled, res, reported, httpState, wsVars, forwarded, spins>>

\* the Content and Templates arms: a forced refresh
content_or_templates_changed ==
    /\ \E result \in {Ok, Err} :
        /\ res' = result
        /\ rebuild_done_handling(result, ForcedRefresh)
    /\ loop_continues
    /\ UNCHANGED <<site, outputDir, copied>>

\* the StaticFiles arm answering with the forced refresh
static_files_changed_forced(changed, p, ftype) ==
    /\ IF ftype = "file"
       THEN \E result \in {Ok, Err} :
               /\ res' = result
               /\ copied' = Append(copied, changed)
               /\ rebuild_done_handling(result, ForcedRefresh)
       ELSE /\ res' = "not a file"
            /\ reported' = FALSE
            /\ UNCHANGED <<copied, chan, produced>>
    /\ loop_continues
    /\ UNCHANGED <<site, outputDir>>

\* the StaticFiles arm without the test of path.is_file()
static_files_changed_unchecked(changed, p, ftype) ==
    /\ \E result \in {Ok, Err} :
          /\ res' = result
          /\ copied' = Append(copied, changed)
          /\ rebuild_done_handling(result, to_string_lossy(p))
    /\ loop_continues
    /\ UNCHANGED <<site, outputDir>>

\* the StaticFiles arm: copy_file, only for a regular file
static_files_changed(changed, p, ftype) ==
    /\ IF ftype = "file"
       THEN \E result \in {Ok, Err} :
               /\ res' = result
               /\ copied' = Append(copied, changed)
               /\ rebuild_done_handling(result, to_string_lossy(p))
       ELSE /\ res' = "not a file"
            /\ reported' = FALSE
            /\ UNCHANGED <<copied, chan, produced>>
    /\ loop_continues
    /\ UNCHANGED <<site, outputDir>>

\* the Sass arm: site.compile_sass, whatever compile_sass says
sass_changed(p) ==
    /\ \E result \in {Ok, Err} :
        /\ res' = result
        /\ rebuild_done_handling(result, to_string_lossy(p))
    /\ loop_continues
    /\ UNCHANGED <<site, outputDir, copied>>

\* the Config arm handled like the others: a reload is sent on success
config_changed_reloading ==
    \E failure \in SiteFailures :
        LET made == create_new_site(failure) IN
        IF made.ok
        THEN /\ site' = made.site
             /\ outputDir' = "present"
             /\ UNCHANGED copied
             /\ res' = Ok
             /\ rebuild_done_handling(Ok, ForcedRefresh)
             /\ loop_continues
        ELSE /\ res' = Err
             /\ watch_ends(SiteError(failure))
             /\ reported' = FALSE
             /\ UNCHANGED <<site, outputDir, copied, chan, produced>>

\* the Config arm rebuilding the Site it holds in place and reporting a
\* failure like the other arms
config_changed_in_place ==
    \E failure \in SiteFailures :
        LET made == create_new_site(failure) IN
        /\ site' = made.site
        /\ outputDir' = IF made.ok THEN "present" ELSE outputDir
        /\ UNCHANGED copied
        /\ res' = IF made.ok THEN Ok ELSE Err
        /\ reported' = ~made.ok
        /\ loop_continues
        /\ UNCHANGED <<chan, produced>>

\* the Config arm: site = create_new_site(..).unwrap()
config_changed ==
    \E failure \in SiteFailures :
        LET made == create_new_site(failure) IN
        IF made.ok
        THEN /\ site' = made.site
             /\ outputDir' = "present"
             /\ UNCHANGED copied
             /\ res' = Ok
             /\ reported' = FALSE
             /\ loop_continues
             /\ UNCHANGED <<chan, produced>>
        ELSE /\ res' = Err
             /\ watch_ends(SiteError(failure))
             /\ reported' = FALSE
             /\ UNCHANGED <<site, outputDir, copied, chan, produced>>

\* line 135: what path.is_file() answers, where the loop asks it
is_file_answer(ev, ftype) ==
    IF /\ ev.op \in RebuildOps
       /\ ~(is_temp_file(ev.path) \/ ftype = "dir")
       /\ detect_change_kind(pwd, ev.path).kind = StaticFiles
    THEN (IF ftype = "file" THEN "yes" ELSE "no")
    ELSE "unasked"

\* lines 112-152: what the loop does with a received event
handle_event(ev, ftype) ==
    /\ handled' = handled + 1
    /\ regular' = is_file_answer(ev, ftype)
    /\ IF ev.op \notin RebuildOps
       THEN /\ res' = "dropped"
            /\ reported' = FALSE
            /\ loop_continues
            /\ UNCHANGED <<path, detected, site, outputDir, copied, chan, produced>>
       ELSE IF is_temp_file(ev.path) \/ ftype = "dir"
       THEN /\ res' = "ignored"
            /\ reported' = FALSE
            /\ loop_continues
            /\ UNCHANGED <<path, detected, site, outputDir, copied, chan, produced>>
       ELSE LET change == detect_change_kind(pwd, ev.path) IN
            /\ path' = ev.path
            /\ detected' = change
            /\ CASE change.kind = Content -> content_or_templates_changed
                 [] change.kind = Templates -> content_or_templates_changed
                 [] change.kind = StaticFiles ->
                        static_files_changed(ev.path, change.path, ftype)
                 [] change.kind = Sass -> sass_changed(change.path)
                 [] change.kind = Config -> config_changed
                 [] OTHER ->
                        /\ res' = "panic"
                        /\ watch_ends(UnreachablePanic)
                        /\ reported' = FALSE
                        /\ UNCHANGED <<site, outputDir, copied, chan, produced>>

\* rx.recv() taking the next event without waiting for the rebuild of the
\* last one to return
WatchRecv_overlapping ==
    /\ Alive
    /\ watchPc \in {"loop", "handling"}
    /\ handled < MaxEvents
    /\ \E ev \in Events(watches) : current' = ev
    /\ watchPc' = "handling"
    /\ UNCHANGED <<clsVars, mode, env, mainPc, watches, error, outputDir, regular, copied,
                   handler, site, chan, produced, handled, res, reported,
                   httpState, wsVars, forwarded, spins>>

\* lines 109-111: rx.recv() returns the next event of the registered watches
WatchRecv ==
    /\ Alive
    /\ watchPc = "loop"
    /\ handled < MaxEvents
    /\ \E ev \in Events(watches) : current' = ev
    /\ watchPc' = "handling"
    /\ UNCHANGED <<clsVars, mode, env, mainPc, watches, error, outputDir, regular, copied,
                   handler, site, chan, produced, handled, res, reported,
                   httpState, wsVars, forwarded, spins>>

\* the same receive, of the saves of two regular files
WatchRecvLive ==
    /\ Alive
    /\ watchPc = "loop"
    /\ handled < MaxEvents
    /\ \E ev \in LiveEvents : current' = ev
    /\ watchPc' = "handling"
    /\ UNCHANGED <<clsVars, mode, env, mainPc, watches, error, outputDir, regular, copied,
                   handler, site, chan, produced, handled, res, reported,
                   httpState, wsVars, forwarded, spins>>

\* lines 112-155: the received event is handled, and the loop goes round
WatchHandle ==
    /\ Alive
    /\ watchPc = "handling"
    /\ \E ftype \in OnDisk(current) : handle_event(current, ftype)
    /\ current' = NoEvent
    /\ UNCHANGED <<pwd, detectedRel, temp, mode, env, watches, handler,
                   httpState, wsVars, forwarded, spins>>

\* lines 102-103: on a SIGINT the handler deletes the output directory, or
\* panics with "Failed to delete output directory" and its thread ends
Interrupt ==
    /\ Alive
    /\ handler = "set"
    /\ \E removed \in BOOLEAN :
        IF removed
        THEN outputDir' = "absent" /\ handler' = "removing"
        ELSE handler' = "failed" /\ UNCHANGED outputDir
    /\ UNCHANGED <<regular, copied>>
    /\ UNCHANGED <<clsVars, mode, env, mainPc, watchPc, watches, current, error,
                   site, chan, produced, handled, res, reported, httpState,
                   wsVars, forwarded, spins>>

\* line 104: the handler ends the process
HandlerExit ==
    /\ Alive
    /\ handler = "removing"
    /\ handler' = "exited"
    /\ mainPc' = "exit"
    /\ UNCHANGED <<clsVars, mode, env, watchPc, watches, current, error,
                   outputDir, regular, copied, site, chan, produced, handled, res, reported,
                   httpState, wsVars, forwarded, spins>>

(***************************************************************************)
(* serve(): the main context.                                              *)
(***************************************************************************)
\* lines 100-115 of serve.rs, or the watch command calling watch() itself
MainStart ==
    /\ mainPc = "start"
    /\ IF mode = "serve"
       THEN \E port_found \in BOOLEAN :
               IF port_found
               THEN mainPc' = "gate" /\ watchPc' = "build"
               ELSE mainPc' = "exit" /\ UNCHANGED watchPc
       ELSE mainPc' = "watch" /\ watchPc' = "build"
    /\ UNCHANGED <<clsVars, mode, env, watches, current, error, outputDir, regular, copied,
                   handler, site, chan, produced, handled, res, reported,
                   httpState, wsVars, forwarded, spins>>

\* the gate passing without a receive
MainGate_open ==
    /\ mainPc = "gate"
    /\ mainPc' = "spawn_http"
    /\ UNCHANGED <<clsVars, mode, env, watchVars, httpState, wsVars,
                   forwarded, spins>>

\* the gate receiving without taking the message off the channel
MainGate_peek ==
    /\ mainPc = "gate"
    /\ chan # <<>> \/ watchPc = "dead"
    /\ mainPc' = IF chan # <<>> THEN "spawn_http" ELSE "exit"
    /\ UNCHANGED <<clsVars, mode, env, watchVars, httpState, wsVars,
                   forwarded, spins>>

\* line 117: rx.recv().unwrap() blocks until a message arrives or tx is
\* dropped, and panics on the latter
MainGate ==
    /\ mainPc = "gate"
    /\ chan # <<>> \/ watchPc = "dead"
    /\ IF chan # <<>>
       THEN chan' = Tail(chan) /\ mainPc' = "spawn_http"
       ELSE mainPc' = "exit" /\ UNCHANGED chan
    /\ UNCHANGED <<clsVars, mode, env, watchPc, watches, current, error,
                   outputDir, regular, copied, handler, site, produced, handled, res, reported,
                   httpState, wsVars, forwarded, spins>>

\* lines 119-141: the thread of the HTTP server is spawned
MainSpawnHttp ==
    /\ mainPc = "spawn_http"
    /\ httpState' = "spawned"
    /\ mainPc' = "ws_new"
    /\ UNCHANGED <<clsVars, mode, env, watchVars, wsVars, forwarded, spins>>

\* lines 136-140: bind, or the thread panics with "Can't start the webserver"
HttpBind ==
    /\ Alive
    /\ httpState = "spawned"
    /\ \E bound \in BOOLEAN : httpState' = IF bound THEN "running" ELSE "failed"
    /\ UNCHANGED <<clsVars, mode, env, mainPc, watchVars, wsVars, forwarded,
                   spins>>

\* lines 144-159: WebSocket::new and its broadcaster
MainWsNew ==
    /\ mainPc = "ws_new"
    /\ \E created \in BOOLEAN :
        IF created
        THEN wsState' = "created" /\ mainPc' = "spawn_ws"
        ELSE mainPc' = "exit" /\ UNCHANGED wsState
    /\ UNCHANGED <<clsVars, mode, env, watchVars, httpState, wsQueue, conn,
                   inbox, outbox, frames, forwarded, spins>>

\* lines 160-162: the thread of the WebSocket listener is spawned
MainSpawnWs ==
    /\ mainPc = "spawn_ws"
    /\ wsState' = "spawned"
    /\ mainPc' = "pump"
    /\ UNCHANGED <<clsVars, mode, env, watchVars, httpState, wsQueue, conn,
                   inbox, outbox, frames, forwarded, spins>>

\* broadcaster.send(msg).unwrap() faulting when nobody is connected
broadcaster_send_needs_clients(msg) ==
    IF wsState # "failed" /\ \E c \in Clients : conn[c] = "open"
    THEN /\ wsQueue' = Append(wsQueue, Broadcast(msg))
         /\ forwarded' = Append(forwarded, msg)
         /\ UNCHANGED mainPc
    ELSE /\ mainPc' = "exit"
         /\ UNCHANGED <<wsQueue, forwarded>>

\* line 167: broadcaster.send(msg).unwrap(): the message is queued for the
\* event loop; Err, and the panic, only when the event loop is gone
broadcaster_send(msg) ==
    IF wsState # "failed"
    THEN /\ wsQueue' = Append(wsQueue, Broadcast(msg))
         /\ forwarded' = Append(forwarded, msg)
         /\ UNCHANGED mainPc
    ELSE /\ mainPc' = "exit"
         /\ UNCHANGED <<wsQueue, forwarded>>

\* lines 164-168: the forwarding loop receives a message
MainPump ==
    /\ mainPc = "pump"
    /\ chan # <<>>
    /\ chan' = Tail(chan)
    /\ broadcaster_send(Head(chan))
    /\ UNCHANGED <<clsVars, mode, env, watchPc, watches, current, error,
                   outputDir, regular, copied, handler, site, produced, handled, res, reported,
                   httpState, wsState, conn, inbox, outbox, frames, spins>>

\* line 169: recv() on a channel whose sender is gone returns Err at once:
\* the error is printed and the loop goes round
MainPumpErr ==
    /\ mainPc = "pump"
    /\ chan = <<>>
    /\ watchPc = "dead"
    /\ spins < MaxSpins
    /\ spins' = spins + 1
    /\ UNCHANGED <<clsVars, mode, env, mainPc, watchVars, httpState, wsVars,
                   forwarded>>

(***************************************************************************)
(* The WebSocket server and the browsers.                                  *)
(***************************************************************************)
\* line 161: listen binds the address, or the thread panics and the server,
\* with its queue, is dropped
WsListen ==
    /\ Alive
    /\ wsState = "spawned"
    /\ \E bound \in BOOLEAN :
        IF bound
        THEN wsState' = "listening" /\ UNCHANGED wsQueue
        ELSE wsState' = "failed" /\ wsQueue' = <<>>
    /\ UNCHANGED <<clsVars, mode, env, mainPc, watchVars, httpState, conn,
                   inbox, outbox, frames, forwarded, spins>>

ClientConnect(c) ==
    /\ Alive
    /\ wsState = "listening"
    /\ conn[c] = "none"
    /\ conn' = [conn EXCEPT ![c] = "open"]
    /\ UNCHANGED <<clsVars, mode, env, mainPc, watchVars, httpState, wsState,
                   wsQueue, inbox, outbox, frames, forwarded, spins>>

\* the livereload client: its handshake once the socket is open, its
\* "info" once the server's handshake reply has arrived
ClientSend(c) ==
    /\ Alive
    /\ conn[c] = "open"
    /\ \/ /\ frames[c] = 0
          /\ inbox' = [inbox EXCEPT ![c] = Append(@, HelloFrame)]
       \/ /\ frames[c] = 1
          /\ \E i \in DOMAIN outbox[c] : outbox[c][i] = HelloReply
          /\ inbox' = [inbox EXCEPT ![c] = Append(@, InfoFrame)]
    /\ frames' = [frames EXCEPT ![c] = @ + 1]
    /\ UNCHANGED <<clsVars, mode, env, mainPc, watchVars, httpState, wsState,
                   wsQueue, conn, outbox, forwarded, spins>>

\* the handler answering every frame with the handshake reply
on_message_any(c, msg) ==
    wsQueue' = Append(wsQueue, Reply(c, HelloReply))

\* lines 145-156: the handler of one connection on an inbound text frame
on_message(c, msg) ==
    wsQueue' = IF contains(msg, "\"hello\"")
               THEN Append(wsQueue, Reply(c, HelloReply))
               ELSE wsQueue

WsOnMessage(c) ==
    /\ Alive
    /\ wsState = "listening"
    /\ conn[c] = "open"
    /\ inbox[c] # <<>>
    /\ inbox' = [inbox EXCEPT ![c] = Tail(@)]
    /\ on_message(c, Head(inbox[c]))
    /\ UNCHANGED <<clsVars, mode, env, mainPc, watchVars, httpState, wsState,
                   conn, outbox, frames, forwarded, spins>>

\* the event loop takes one command off its queue: a broadcast goes to
\* every open connection, a handler's reply to its own
WsDeliver ==
    /\ Alive
    /\ wsState = "listening"
    /\ wsQueue # <<>>
    /\ wsQueue' = Tail(wsQueue)
    /\ outbox' = [c \in Clients |->
                    IF conn[c] = "open" /\ c \in Head(wsQueue).to
                    THEN Append(outbox[c], Head(wsQueue).msg)
                    ELSE outbox[c]]
    /\ UNCHANGED <<clsVars, mode, env, mainPc, watchVars, httpState, wsState,
                   conn, inbox, frames, forwarded, spins>>

(***************************************************************************)
(* The program.                                                            *)
(***************************************************************************)
Init ==
    /\ pwd = Pwd
    /\ path = <<>>
    /\ detected = NotYet
    /\ detectedRel = NotYet
    /\ temp = None
    /\ mode \in {"serve", "watch"}
    /\ env = DefaultEnv
    /\ Unstarted

\* what the program's own contexts do
Program ==
    \/ MainStart
    \/ FirstBuild
    \/ WatchSetup
    \/ WatchHandle
    \/ MainGate
    \/ MainSpawnHttp
    \/ HttpBind
    \/ MainWsNew
    \/ MainSpawnWs
    \/ MainPump
    \/ MainPumpErr
    \/ WsListen
    \/ WsDeliver

\* the program on any filesystem event, no browser connecting
Next == Program \/ WatchRecv

Spec == Init /\ [][Next]_vars

\* the main context is a thread the scheduler keeps running: a step it can
\* take, it takes
SpecFair ==
    /\ Spec
    /\ WF_vars(MainGate)
    /\ WF_vars(MainSpawnHttp)
    /\ WF_vars(MainWsNew)
    /\ WF_vars(MainSpawnWs)
    /\ WF_vars(MainPump)

\* serve with browsers connecting, on the saves of two files
InitLive == Init /\ mode = "serve"

Browsers ==
    \/ \E c \in Clients : ClientConnect(c)
    \/ \E c \in Clients : ClientSend(c)
    \/ \E c \in Clients : WsOnMessage(c)

NextLive == Program \/ WatchRecvLive \/ Browsers

SpecLive == InitLive /\ [][NextLive]_vars

\* any config file name and project layout, and the user's Ctrl-C
InitEnv ==
    /\ pwd = Pwd
    /\ path = <<>>
    /\ detected = NotYet
    /\ detectedRel = NotYet
    /\ temp = None
    /\ mode \in {"serve", "watch"}
    /\ env \in Envs
    /\ Unstarted

NextEnv == Next \/ Interrupt \/ HandlerExit

SpecEnv == InitEnv /\ [][NextEnv]_vars

(***************************************************************************)
(* Properties of the classifier.                                           *)
(***************************************************************************)
under_root == starts_with(path, pwd)

root_relative == strip_prefix(path, pwd).val

KindByRule(rel) ==
    IF rel = <<"config.toml">> THEN Config
    ELSE IF rel = <<>> THEN Unreachable
    ELSE IF Head(rel) = "templates" THEN Templates
    ELSE IF Head(rel) = "content" THEN Content
    ELSE IF Head(rel) = "static" THEN StaticFiles
    ELSE IF Head(rel) = "sass" THEN Sass
    ELSE Unreachable

\* C9: for every path under the project root, detect_change_kind returns
\* the canonical path "/" + (path relative to the root) and the kind its
\* root-relative form selects: Templates, Content, StaticFiles or Sass by
\* the leading component, Config only for exactly "/config.toml"; a path
\* that selects no kind reaches unreachable!().
C9_KindByRootRelativeForm ==
    (detected # NotYet /\ under_root) =>
        /\ detected.path = <<RootDir>> \o root_relative
        /\ detected.kind = KindByRule(root_relative)

\* the config file under a root other than "/" has been classified as
\* Config, with the canonical path "/config.toml"
C9_Witness ==
    /\ detected # NotYet
    /\ under_root
    /\ Len(pwd) > 1
    /\ detected.kind = Config
    /\ to_string_lossy(detected.path) = "/config.toml"

\* C10: detect_change_kind returns the same (kind, canonical path) for a
\* path given absolute under the project root and for the same path given
\* already root-relative.
C10_AbsoluteAndRelativeAgree ==
    (detected # NotYet /\ detectedRel # NotYet /\ under_root) =>
        detected = detectedRel

\* both forms of a templates path under a root other than "/" were
\* classified, as Templates
C10_Witness ==
    /\ detected # NotYet
    /\ detectedRel # NotYet
    /\ under_root
    /\ Len(pwd) > 1
    /\ detectedRel.kind = Templates
    /\ to_string_lossy(detectedRel.path) = "/templates/hello.md"

(***************************************************************************)
(* Properties of is_temp_file.                                             *)
(***************************************************************************)
\* the file name of `path`, spelled; empty when the path has none
name_of_path == IF has_file_name(path) THEN Spelling(Last(path)) ELSE <<>>

has_extension(exts) == extension(path).some /\ extension(path).val \in exts

name_ends_with(suffix) == name_of_path # <<>> /\ Last(name_of_path) = suffix

stem_starts_with(c) ==
    /\ file_stem(path).some
    /\ file_stem(path).val # <<>>
    /\ Head(file_stem(path).val) = c

TempByRule ==
    \/ has_extension({<<"swp">>, <<"swx">>, <<"tmp">>})
    \/ \E suffix \in {"jb_old___", "jb_tmp___", "jb_bak___", "~"} :
          name_ends_with(suffix)
    \/ stem_starts_with("#")
    \/ ~extension(path).some

\* C11: is_temp_file(P) is true exactly when P has the extension swp, swx
\* or tmp, or its name ends with jb_old___, jb_tmp___, jb_bak___ or "~",
\* or its file stem starts with "#", or P has no extension at all (the case
\* of ".DS_STORE"); for every other path it is false.
C11_TempFileExactly == temp.some => (temp.val = TempByRule)

\* "#hello.html", whose only mark is the "#" of its stem, was found to be a
\* temp file, in a directory, by the emacs arm
C11_Witness ==
    /\ temp.some
    /\ temp.val
    /\ Len(path) > 1
    /\ Last(path) = "#hello.html"
    /\ extension(path) = Some(<<"html">>)

(***************************************************************************)
(* Properties of serve and watch.                                          *)
(***************************************************************************)
\* C1: the Dev HTTP Server and the WebSocket listener are started only
\* after the first full build has completed and been signalled: while the
\* first build has failed or not finished, neither has been started.
C1_ServersAfterFirstBuild ==
    (httpState # "none" \/ wsState # "none") =>
        /\ site # NoSite
        /\ site.loaded /\ site.built
        /\ mainPc \notin {"start", "gate"}

\* both servers run, on a built site
C1_Witness ==
    /\ httpState = "running"
    /\ wsState = "listening"
    /\ site.built

\* the loop has received an event and its rebuild returned an error
failed_cycle == handled' = handled + 1 /\ res' = Err

\* the loop has received an event and its rebuild succeeded
successful_cycle == handled' = handled + 1 /\ res' = Ok

\* C2: whatever the change kind (Content, Templates, StaticFiles, Sass,
\* Config), when the rebuild triggered by an event fails the failure is
\* reported and the watch loop continues, ready for the next event.
C2_FailedRebuildKeepsLoopAlive ==
    [][failed_cycle => (reported' /\ watchPc' = "loop" /\ mainPc' # "exit")]_vars

\* C3: a cycle whose rebuild fails sends nothing on the notification
\* channel, so no reload message exists for it.
C3_FailedRebuildEmitsNothing ==
    [][failed_cycle => (chan' = chan /\ produced' = produced)]_vars

\* under serve a rebuild has failed, was reported, and the loop is alive
C3_Witness ==
    /\ mode = "serve"
    /\ res = Err
    /\ reported
    /\ watchPc = "loop"
    /\ detected.kind \in {Content, Templates, StaticFiles, Sass}

\* the path the reload message of a change must carry
canonical_of(p) == "/" \o JoinComponents(strip_prefix(p, pwd).val)

expected_reload_path(kind, p) ==
    IF kind \in {Content, Templates} THEN "/x.js" ELSE canonical_of(p)

\* C4: with a reload channel, each successful Content, Templates,
\* StaticFiles or Sass rebuild sends exactly one reload message: with the
\* path "/x.js" for Content and Templates, with the changed file's
\* canonical root-relative path for StaticFiles and Sass.
C4_OneReloadPerSuccess ==
    [][(successful_cycle /\ mode = "serve" /\ detected'.kind # Config) =>
          /\ chan' = Append(chan,
                 ReloadMessage(expected_reload_path(detected'.kind, path')))
          /\ produced' = Append(produced,
                 ReloadMessage(expected_reload_path(detected'.kind, path')))]_vars

\* a static file was copied and the last message sent names it
C4_Witness ==
    /\ mode = "serve"
    /\ res = Ok
    /\ detected.kind = StaticFiles
    /\ produced # <<>>
    /\ Last(produced) = ReloadMessage("/static/site.css")

\* C5: a successful Config change replaces the Site of the watch loop by a
\* newly created, loaded and built one and sends nothing on the
\* notification channel.
C5_ConfigReplacesSiteSilently ==
    [][(successful_cycle /\ detected'.kind = Config) =>
          /\ site'.id # site.id
          /\ site'.loaded /\ site'.built
          /\ chan' = chan
          /\ produced' = produced]_vars

\* under serve the config changed, the second Site is held, nothing was sent
C5_Witness ==
    /\ mode = "serve"
    /\ res = Ok
    /\ detected.kind = Config
    /\ site.id = 2
    /\ produced = <<>>
    /\ mainPc = "pump"

\* what was forwarded, followed by what is still in the channel, is what
\* the watch loop sent; the first-build signal is not among the forwarded
forwarded_conserved ==
    (mode = "serve" /\ Alive) =>
        /\ mainPc \in {"start", "gate"} =>
              /\ forwarded = <<>>
              /\ chan \in {<<>>, <<FirstBuildComplete>> \o produced}
        /\ mainPc \notin {"start", "gate"} => forwarded \o chan = produced
        /\ \A i \in DOMAIN forwarded : forwarded[i] # FirstBuildComplete

\* C6: the reload messages the watch loop sent are handed to the
\* broadcaster once each and in the order sent, those sent before the
\* broadcaster existed included, and each of them is handed over unless
\* the process ends first.  The first-build signal is taken by the gate
\* and never forwarded.
C6_ForwardedOnceInOrder ==
    /\ []forwarded_conserved
    /\ \A k \in 1..MaxEvents :
          (mode = "serve" /\ Len(produced) >= k) ~> (Len(forwarded) >= k \/ ~Alive)

\* two different reload messages were forwarded, in the order sent
C6_Witness ==
    /\ Len(forwarded) = 2
    /\ forwarded[1] # forwarded[2]
    /\ forwarded = produced
    /\ chan = <<>>

is_open(c) == conn[c] = "open"

count_of(sq, x) == Cardinality({i \in DOMAIN sq : sq[i] = x})

\* the handshake replies owed to, under way to, or received by a browser
\* match the handshake frames it sent
one_reply_per_hello(c) ==
    count_of(inbox[c], HelloFrame)
        + count_of(wsQueue, Reply(c, HelloReply))
        + count_of(outbox[c], HelloReply)
    = (IF frames[c] >= 1 THEN 1 ELSE 0)

C7_OneReplyPerHello == \A c \in Clients : one_reply_per_hello(c)

\* C7: on every connection each handshake frame gets exactly one handshake
\* reply, and no reload frame is delivered to the connection before its
\* handshake reply.
C7_HandshakeBeforeReload ==
    \A c \in Clients :
        /\ one_reply_per_hello(c)
        /\ \A i \in DOMAIN outbox[c] :
              outbox[c][i] # HelloReply =>
                  \E j \in 1..(i - 1) : outbox[c][j] = HelloReply

no_clients == \A c \in Clients : ~is_open(c)

required_watch_failed ==
    \E target \in {"content", "templates", "config"} : error = SetupError(target)

\* C13: a failure to register the watch on content/, templates/ or the
\* config file is fatal at startup: the watch loop is never entered, no
\* rebuild is dispatched, and the process reaches its exit with the error
\* that names the failed target, under watch and under serve alike.
C13_WatchFailureIsFatal ==
    /\ [](required_watch_failed =>
            (watchPc = "dead" /\ watches = {} /\ handled = 0 /\ current = NoEvent))
    /\ required_watch_failed ~> ~Alive

(***************************************************************************)
(* Properties of the end of the process.                                   *)
(***************************************************************************)
\* the Ctrl-C handler was set, which is the last thing before the loop
loop_was_entered == handler # "unset"

\* C14: once the watch loop is running the process ends only through the
\* interrupt handler, and when it ends through the handler the output
\* directory has been deleted and is absent.
C14_ExitOnlyByInterrupt ==
    (~Alive /\ loop_was_entered) =>
        (handler = "exited" /\ outputDir = "absent")

(***************************************************************************)
(* Properties of the watch loop.                                           *)
(***************************************************************************)
\* C15: classification is total over the registered watches: for every
\* path an event of a registered watch carries (under content/, templates/,
\* static/, sass/, or the config file given to watch) that passes the
\* temp-file and directory filters, detect_change_kind returns a ChangeKind
\* and never reaches its unreachable!() branch.
C15_ClassificationTotal ==
    detected # NotYet => (detected.kind \in ChangeKind /\ res # "panic")

\* an event that rebuilds, of a temp file or of a directory of the project
filtered_event(ev) ==
    /\ ev.op \in RebuildOps
    /\ is_temp_file(ev.path) \/ subject_is_dir(ev.path)

\* C16: temp files and directory events never reach the classifier: for an
\* event Create, Write, Remove or Rename whose path is a temp file or whose
\* subject is a directory (one just removed or renamed away included),
\* detect_change_kind is not invoked and no rebuild is dispatched.
C16_FilteredNeverClassified ==
    [][(handled' = handled + 1 /\ filtered_event(current)) =>
          /\ res' = "ignored"
          /\ detected' = detected
          /\ site' = site
          /\ chan' = chan
          /\ produced' = produced]_vars

\* C17: no context busy-polls: every iteration of the forwarding loop of
\* serve and of the watch loop follows a blocking wait that received
\* something; after the watch context has ended, and with it the sender of
\* the channel, the forwarding loop does not go round without blocking.
C17_NoBusyPolling ==
    [][/\ spins' = spins
       /\ (mainPc = "pump" /\ forwarded' # forwarded) =>
              (chan # <<>> /\ chan' = Tail(chan))
       /\ handled' = handled + 1 =>
              (watchPc = "handling" /\ current \in Events(watches))]_vars

\* a Site whose creation, load and build all succeeded
complete(st) == st.id >= 1 /\ st.loaded /\ st.built

\* C18: a failed Config rebuild never leaves the Site half-replaced:
\* whenever the watch loop waits for or handles an event the Site it holds
\* was created, loaded and built with success; a Config rebuild that fails
\* leaves the last such Site in place, and every rebuild has such a Site as
\* its target.
C18_SiteNeverHalfReplaced ==
    [][/\ watchPc' \in {"loop", "handling"} => complete(site')
       /\ (failed_cycle /\ detected'.kind = Config) => (site' = site /\ complete(site))
       /\ handled' = handled + 1 => complete(site)]_vars

\* a Config change replaced the first Site by the second, and the next one
\* failed in load: the second Site is the one still held
C18_Witness ==
    /\ handled = 2
    /\ detected.kind = Config
    /\ res = Err
    /\ error = SiteError("load")
    /\ site = [id |-> 2, loaded |-> TRUE, built |-> TRUE]

\* the watch loop takes an event off its queue
event_taken == current' # NoEvent /\ current' # current

\* C19: rebuilds against the Site are sequential and have one owner: an
\* event is taken from the watch queue only when no rebuild is in progress,
\* every rebuild that returns is the one in progress, and the Site changes
\* only in a step of the context that runs watch(), never in a step of the
\* main context, the HTTP server or the WebSocket server.
C19_RebuildsSequentialOneOwner ==
    [][/\ event_taken =>
             (watchPc = "loop" /\ current = NoEvent /\ watchPc' = "handling")
       /\ handled' = handled + 1 =>
             (watchPc = "handling" /\ current # NoEvent /\ current' = NoEvent)
       /\ site' # site =>
             /\ watchPc = "build" \/ handled' = handled + 1
             /\ mainPc' \in {mainPc, "exit"}
             /\ UNCHANGED <<httpState, wsVars, forwarded, spins>>]_vars

\* under serve a Config rebuild has replaced the Site and returned, and
\* the next event, the save of a page, is being handled
C19_Witness ==
    /\ mode = "serve"
    /\ mainPc = "pump"
    /\ handled = 1
    /\ res = Ok
    /\ detected.kind = Config
    /\ site.id = 2
    /\ watchPc = "handling"
    /\ current = [op |-> "Write", path |-> Pwd \o <<"content", "hello.md">>]

\* the event being handled is a change under sass/
sass_event == current.op \in RebuildOps /\ starts_with(current.path, Pwd \o <<"sass">>)

\* C20: sass/ is watched if and only if compile_sass is enabled (and sass/
\* can be watched): with compile_sass disabled a change under sass/ starts
\* no stylesheet compilation and sends no reload message; with it enabled
\* and sass/ not watchable the set-up still succeeds, failing only with the
\* error of a required target.
C20_SassWatchedIffEnabled ==
    [][/\ watchPc' \in {"loop", "handling"} =>
             ("sass" \in watches' <=> (env.compile_sass /\ env.has_sass))
       /\ (handled' = handled + 1 /\ sass_event /\ ~env.compile_sass) =>
             (res' \notin {Ok, Err} /\ chan' = chan /\ produced' = produced)
       /\ (watchPc = "setup" /\ watchPc' = "dead") =>
             error' \in {SetupError(f) : f \in SetupFailures \ {"none"}}]_vars

\* the loop has handled an event of the StaticFiles kind
static_cycle ==
    /\ handled' = handled + 1
    /\ detected'.kind = StaticFiles
    /\ path' = current.path
    /\ regular' # "unasked"

\* C21: a StaticFiles event copies exactly the one changed file, and only
\* when the changed path is a regular file at dispatch; when it is not (a
\* Remove of a static file, say) nothing is copied, no reload message is
\* sent, the output directory is left as it was and the loop goes on to
\* the next event.  Nothing but such an event copies a file.
C21_StaticCopiesOneRegularFile ==
    [][/\ (static_cycle /\ regular' = "yes") =>
             /\ copied' = Append(copied, current.path)
             /\ res' \in {Ok, Err}
             /\ watchPc' = "loop"
       /\ (static_cycle /\ regular' = "no") =>
             /\ res' = "not a file"
             /\ copied' = copied
             /\ chan' = chan
             /\ produced' = produced
             /\ reported' = FALSE
             /\ outputDir' = outputDir
             /\ site' = site
             /\ watchPc' = "loop"
             /\ mainPc' = mainPc
       /\ copied' # copied => (static_cycle /\ regular' = "yes")]_vars

\* under serve the stylesheet was saved and copied, then removed: the
\* Remove copied nothing and sent nothing, and the loop waits for more
C21_Witness ==
    /\ mode = "serve"
    /\ handled = 2
    /\ detected.kind = StaticFiles
    /\ regular = "no"
    /\ res = "not a file"
    /\ copied = <<Pwd \o <<"static", "site.css">>>>
    /\ produced = <<ReloadMessage("/static/site.css")>>
    /\ outputDir = "present"
    /\ watchPc = "loop"

=============================================================================
